---- MODULE Spec2Model ----
(***************************************************************************)
(* Forex lot size calculator (src/src/App.js): the App component's state,  *)
(* its handlers (field edits, Calculate, Reset), the asynchronous rate     *)
(* lookup of calculateLotSize and the parsing / sizing functions.          *)
(*                                                                         *)
(* Texts are TLA+ strings; the regular expressions of the source are       *)
(* matched character by character.  Numbers are exact decimals (reduced    *)
(* fractions) extended with the two non-finite values a JavaScript number  *)
(* can take, Infinity and NaN, so a division by zero is visible.  The      *)
(* binary rounding of IEEE doubles (1e-14 relative) is not modelled.       *)
(***************************************************************************)
EXTENDS Integers, Sequences, FiniteSets, TLC

VARIABLES accountBalanceInput, inputText, riskPercentage, result,
          localStorage, alerts, pending, calc, lastOp

vars == <<accountBalanceInput, inputText, riskPercentage, result,
          localStorage, alerts, pending, calc, lastOp>>

(***************************************************************************)
(* Characters and character classes of the regular expressions.            *)
(***************************************************************************)
Ch(s, i) == IF 1 <= i /\ i <= Len(s) THEN SubSeq(s, i, i) ELSE ""

LowerLetters == "abcdefghijklmnopqrstuvwxyz"
UpperLetters == "ABCDEFGHIJKLMNOPQRSTUVWXYZ"
DigitChars == "0123456789"

LowerSet == {Ch(LowerLetters, i) : i \in 1..26}
UpperSet == {Ch(UpperLetters, i) : i \in 1..26}
\* [A-Za-z]
Alpha == LowerSet \cup UpperSet
\* \d
Digit == {Ch(DigitChars, i) : i \in 1..10}
\* \s (the white space characters a TLA+ string can hold)
Space == {" ", "\t", "\n", "\r", "\f"}
\* [\s:]
SpaceOrColon == Space \cup {":"}

DigitVal(c) == (CHOOSE i \in 1..10 : Ch(DigitChars, i) = c) - 1

\* String.prototype.toUpperCase on one character, and its inverse for /i
ToUpperChar(c) ==
  IF c \in LowerSet
  THEN Ch(UpperLetters, CHOOSE i \in 1..26 : Ch(LowerLetters, i) = c)
  ELSE c
ToLowerChar(c) ==
  IF c \in UpperSet
  THEN Ch(LowerLetters, CHOOSE i \in 1..26 : Ch(UpperLetters, i) = c)
  ELSE c

RECURSIVE toUpperCase(_)
toUpperCase(s) ==
  IF s = "" THEN "" ELSE ToUpperChar(Ch(s, 1)) \o toUpperCase(SubSeq(s, 2, Len(s)))

RECURSIVE ToLowerCase(_)
ToLowerCase(s) ==
  IF s = "" THEN "" ELSE ToLowerChar(Ch(s, 1)) \o ToLowerCase(SubSeq(s, 2, Len(s)))

\* the literal lit (given in lower case) stands at position i of s, under /i
LitAt(s, i, lit) ==
  /\ i >= 1
  /\ i + Len(lit) - 1 <= Len(s)
  /\ ToLowerCase(SubSeq(s, i, i + Len(lit) - 1)) = lit

\* greedy class*: the first position at or after i whose character is not in class
SkipClass(s, i, class) ==
  CHOOSE j \in i..(Len(s) + 1) :
    /\ \A k \in i..(j - 1) : Ch(s, k) \in class
    /\ Ch(s, j) \notin class

\* \d+\.?\d* at position i: the position after the match, or 0 when no match
NumberEnd(s, i) ==
  IF Ch(s, i) \notin Digit THEN 0
  ELSE LET e1 == SkipClass(s, i, Digit)
       IN  IF Ch(s, e1) = "." THEN SkipClass(s, e1 + 1, Digit) ELSE e1

(***************************************************************************)
(* Numbers: a finite value is the reduced fraction n/d with d > 0; the     *)
(* non-finite values are Infinity (n = 1), -Infinity (n = -1) and NaN.     *)
(***************************************************************************)
Abs(a) == IF a < 0 THEN -a ELSE a
Sign(a) == IF a < 0 THEN -1 ELSE IF a = 0 THEN 0 ELSE 1

RECURSIVE GCD(_, _)
GCD(a, b) == IF b = 0 THEN a ELSE GCD(b, a % b)

RECURSIVE Pow10(_)
Pow10(k) == IF k = 0 THEN 1 ELSE 10 * Pow10(k - 1)

NaN == [k |-> "nan", n |-> 0, d |-> 0]
Infinity == [k |-> "inf", n |-> 1, d |-> 0]
NegInfinity == [k |-> "inf", n |-> -1, d |-> 0]

Frac(a, b) ==
  LET g == GCD(Abs(a), Abs(b))
  IN  [k |-> "fin", n |-> Sign(b) * (a \div g), d |-> Abs(b) \div g]
Num(a) == Frac(a, 1)

IsFinite(x) == x.k = "fin"
IsNaN(x) == x.k = "nan"
SignOf(x) == Sign(x.n)

\* x * y on JavaScript numbers
Mul(x, y) ==
  IF IsNaN(x) \/ IsNaN(y) THEN NaN
  ELSE IF IsFinite(x) /\ IsFinite(y)
       THEN LET g1 == GCD(Abs(x.n), y.d)
                g2 == GCD(Abs(y.n), x.d)
            IN  IF x.n = 0 \/ y.n = 0 THEN Num(0)
                ELSE Frac((x.n \div g1) * (y.n \div g2), (x.d \div g2) * (y.d \div g1))
       ELSE IF SignOf(x) * SignOf(y) = 0 THEN NaN
       ELSE IF SignOf(x) * SignOf(y) > 0 THEN Infinity ELSE NegInfinity

\* x / y on JavaScript numbers: a zero divisor gives Infinity or NaN, never an exception
Div(x, y) ==
  IF IsNaN(x) \/ IsNaN(y) THEN NaN
  ELSE IF IsFinite(y)
       THEN IF y.n = 0
            THEN IF SignOf(x) = 0 THEN NaN
                 ELSE IF SignOf(x) > 0 THEN Infinity ELSE NegInfinity
            ELSE Mul(x, Frac(Sign(y.n) * y.d, Abs(y.n)))
       ELSE IF IsFinite(x) THEN Num(0) ELSE NaN

\* Math.abs(x - y) on finite numbers
AbsDiff(x, y) ==
  LET g == GCD(x.d, y.d)
  IN  Frac(Abs(x.n * (y.d \div g) - y.n * (x.d \div g)), (x.d \div g) * y.d)

\* the first k decimal digits of r/d (0 <= r < d) as an integer, and the remainder
RECURSIVE FracDigits(_, _, _)
FracDigits(r, d, k) ==
  IF k = 0 THEN <<0, r>>
  ELSE LET t == FracDigits(r, d, k - 1)
       IN  <<10 * t[1] + ((10 * t[2]) \div d), (10 * t[2]) % d>>

\* toFixed cutting the digits off instead of rounding to the nearest
RoundDown(x, digits) ==
  IF ~IsFinite(x) THEN x
  ELSE LET p == Pow10(digits)
           whole == Abs(x.n) \div x.d
           f == FracDigits(Abs(x.n) % x.d, x.d, digits)[1]
           g == GCD(f, p)
       IN  Frac(Sign(x.n) * (whole * (p \div g) + (f \div g)), p \div g)

\* Number.prototype.toFixed(digits) read back by parseFloat, and toLocaleString
\* with maximumFractionDigits: the nearest multiple of 10^-digits, a tie going
\* away from zero; Infinity and NaN print and read back as themselves
Round(x, digits) ==
  IF ~IsFinite(x) THEN x
  ELSE LET p == Pow10(digits)
           whole == Abs(x.n) \div x.d
           t == FracDigits(Abs(x.n) % x.d, x.d, digits)
           f == t[1] + (IF 2 * t[2] >= x.d THEN 1 ELSE 0)
           g == GCD(f, p)
       IN  Frac(Sign(x.n) * (whole * (p \div g) + (f \div g)), p \div g)

\* the decimal digits of s from position i on, with at most one "."
RECURSIVE DecimalValue(_, _, _, _, _)
DecimalValue(s, i, acc, scale, seenDot) ==
  IF i > Len(s) THEN Frac(acc, scale)
  ELSE IF Ch(s, i) = "." THEN DecimalValue(s, i + 1, acc, scale, TRUE)
  ELSE DecimalValue(s, i + 1, 10 * acc + DigitVal(Ch(s, i)),
                    IF seenDot THEN 10 * scale ELSE scale, seenDot)

\* parseFloat of any text: leading white space, an optional sign, then the
\* longest decimal prefix; NaN when there is none
parseFloat(s) ==
  LET b == SkipClass(s, 1, Space)
      sg == IF Ch(s, b) = "-" THEN -1 ELSE 1
      i == IF Ch(s, b) \in {"-", "+"} THEN b + 1 ELSE b
      e1 == SkipClass(s, i, Digit)
      e2 == IF Ch(s, e1) = "." THEN SkipClass(s, e1 + 1, Digit) ELSE e1
      \* a lone "." or a "." with no digit on either side is not a number
      e == IF e1 = i /\ e2 <= e1 + 1 THEN i
           ELSE e2
      v == DecimalValue(SubSeq(s, i, e - 1), 1, 0, 1, FALSE)
  IN  IF e = i THEN NaN ELSE Frac(sg * v.n, v.d)

(***************************************************************************)
(* The regular expressions of parseAccountBalance and parseInputText.  A   *)
(* match is reported as the position of its capture group, 0 standing for  *)
(* "no match" (null).  match() reports the leftmost position that matches. *)
(***************************************************************************)
Min(S) == CHOOSE x \in S : \A y \in S : x <= y
First(S) == IF S = {} THEN 0 ELSE Min(S)

\* the text \d+\.?\d* matches at position i
NumberAt(s, i) == SubSeq(s, i, NumberEnd(s, i) - 1)

\* [A-Za-z]{k} at position i
LettersAt(s, i, k) == \A j \in 0..(k - 1) : Ch(s, i + j) \in Alpha

\* /([A-Za-z]{3})([A-Za-z]{3})|([A-Za-z]{6})/i : the first run of six letters;
\* the first alternative matches wherever the second would
currencyMatch(text) == First({i \in 1..Len(text) : LettersAt(text, i, 6)})

\* the positions where one of the entry keywords, standing at i, can end:
\* Enter(ed)?(\s+(at|now))? | Entry(\s*\((sell|buy)\s*limit\))? | Buy | Sell | Long | Short
EntryKeywordEnds(s, i) ==
  LET enter == IF LitAt(s, i, "enter")
               THEN {i + 5} \cup (IF LitAt(s, i + 5, "ed") THEN {i + 7} ELSE {})
               ELSE {}
      atNow == UNION {LET w == SkipClass(s, e, Space)
                      IN  IF w = e THEN {}
                          ELSE (IF LitAt(s, w, "at") THEN {w + 2} ELSE {})
                               \cup (IF LitAt(s, w, "now") THEN {w + 3} ELSE {})
                      : e \in enter}
      entry == IF LitAt(s, i, "entry") THEN {i + 5} ELSE {}
      limit == UNION {LET w == SkipClass(s, e, Space)
                          side == IF Ch(s, w) # "(" THEN 0
                                  ELSE IF LitAt(s, w + 1, "sell") THEN w + 5
                                  ELSE IF LitAt(s, w + 1, "buy") THEN w + 4
                                  ELSE 0
                          y == IF side = 0 THEN 0 ELSE SkipClass(s, side, Space)
                      IN  IF side # 0 /\ LitAt(s, y, "limit") /\ Ch(s, y + 5) = ")"
                          THEN {y + 6} ELSE {}
                      : e \in entry}
  IN  enter \cup atNow \cup entry \cup limit
      \cup (IF LitAt(s, i, "buy") THEN {i + 3} ELSE {})
      \cup (IF LitAt(s, i, "sell") THEN {i + 4} ELSE {})
      \cup (IF LitAt(s, i, "long") THEN {i + 4} ELSE {})
      \cup (IF LitAt(s, i, "short") THEN {i + 5} ELSE {})

\* first alternative at i: keyword [\s:]* (\d+\.?\d*); the positions of the number.
\* The optional parts of a keyword are followed by a letter, [\s:]* by a digit, so
\* at most one way of matching succeeds and greedy matching finds it.
EntryAlt1(s, i) ==
  {SkipClass(s, e, SpaceOrColon) : e \in EntryKeywordEnds(s, i)}
    \cap {p \in 1..Len(s) : NumberEnd(s, p) # 0}

\* second alternative at i: (Buy|Sell|Long|Short) \s+ [A-Za-z]{6} \s+ (\d+\.?\d*)
EntryAlt2(s, i) ==
  LET ends == (IF LitAt(s, i, "buy") THEN {i + 3} ELSE {})
              \cup (IF LitAt(s, i, "sell") THEN {i + 4} ELSE {})
              \cup (IF LitAt(s, i, "long") THEN {i + 4} ELSE {})
              \cup (IF LitAt(s, i, "short") THEN {i + 5} ELSE {})
  IN  UNION {LET w == SkipClass(s, e, Space)
                 v == SkipClass(s, w + 6, Space)
             IN  IF w > e /\ LettersAt(s, w, 6) /\ v > w + 6 /\ NumberEnd(s, v) # 0
                 THEN {v} ELSE {}
             : e \in ends}

\* openingAmountRegex: the position of openingAmountMatch[1] || openingAmountMatch[2]
openingAmountMatch(text) ==
  LET at == First({i \in 1..Len(text) : EntryAlt1(text, i) \cup EntryAlt2(text, i) # {}})
  IN  IF at = 0 THEN 0
      ELSE IF EntryAlt1(text, at) # {} THEN Min(EntryAlt1(text, at))
      ELSE Min(EntryAlt2(text, at))

\* (?:SL|Stop Loss)[\s:]* at position i: the position after it, 0 when absent
StopLossPrefix(s, i) ==
  IF LitAt(s, i, "sl") THEN SkipClass(s, i + 2, SpaceOrColon)
  ELSE IF LitAt(s, i, "stop loss") THEN SkipClass(s, i + 9, SpaceOrColon)
  ELSE 0

\* slRegex /(?:SL|Stop Loss)[\s:]*(\d+\.?\d*)/i : the position of slMatch[1]
slMatch(text) ==
  LET at == First({i \in 1..Len(text) :
                    StopLossPrefix(text, i) # 0 /\ NumberEnd(text, StopLossPrefix(text, i)) # 0})
  IN  IF at = 0 THEN 0 ELSE StopLossPrefix(text, at)

\* \s*\((\d+)\s*(?:pips?)?\) at position i: the position of the digits, 0 when absent
PipsSuffix(s, i) ==
  LET w == SkipClass(s, i, Space)
      d1 == SkipClass(s, w + 1, Digit)
      x == SkipClass(s, d1, Space)
      close == {x} \cup (IF LitAt(s, x, "pip") THEN {x + 3} ELSE {})
                   \cup (IF LitAt(s, x, "pips") THEN {x + 4} ELSE {})
  IN  IF Ch(s, w) = "(" /\ d1 > w + 1 /\ \E c \in close : Ch(s, c) = ")"
      THEN w + 1 ELSE 0

\* pipsRegex /(?:SL|Stop Loss)[\s:]*\d+\.?\d*\s*\((\d+)\s*(?:pips?)?\)/i :
\* the position of pipsMatch[1]
pipsMatch(text) ==
  LET ok(i) == /\ StopLossPrefix(text, i) # 0
               /\ NumberEnd(text, StopLossPrefix(text, i)) # 0
               /\ PipsSuffix(text, NumberEnd(text, StopLossPrefix(text, i))) # 0
      at == First({i \in 1..Len(text) : ok(i)})
  IN  IF at = 0 THEN 0
      ELSE PipsSuffix(text, NumberEnd(text, StopLossPrefix(text, at)))

\* the digits \d+ at position i
DigitsAt(s, i) == SubSeq(s, i, SkipClass(s, i, Digit) - 1)

null == <<>>

\* parseAccountBalance: /(\d+\.?\d*)\s*([a-zA-Z]{3})?/i, null when no digit is found
parseAccountBalance(input) ==
  LET at == First({i \in 1..Len(input) : Ch(input, i) \in Digit})
      w == SkipClass(input, NumberEnd(input, at), Space)
  IN  IF at = 0 THEN null
      ELSE <<[balance |-> parseFloat(NumberAt(input, at)),
              currency |-> IF LettersAt(input, w, 3)
                           THEN toUpperCase(SubSeq(input, w, w + 2))
                           ELSE "USD"]>>

(***************************************************************************)
(* Pip distance, pip value and contract size.                              *)
(***************************************************************************)
\* calculatePips without the branch for JPY as base currency
calculatePipsNoJpyBase(baseCurrency, quoteCurrency, openingAmount, stopLoss) ==
  IF baseCurrency = "XAU" \/ quoteCurrency = "XAU"
  THEN Div(AbsDiff(openingAmount, stopLoss), Frac(1, 100))
  ELSE IF quoteCurrency = "JPY"
  THEN Div(AbsDiff(openingAmount, stopLoss), Frac(1, 100))
  ELSE Div(AbsDiff(openingAmount, stopLoss), Frac(1, 10000))

\* calculatePips: Math.abs(openingAmount - stopLoss) / pip unit
calculatePips(baseCurrency, quoteCurrency, openingAmount, stopLoss) ==
  IF baseCurrency = "XAU" \/ quoteCurrency = "XAU"
  THEN Div(AbsDiff(openingAmount, stopLoss), Frac(1, 100))
  ELSE IF quoteCurrency = "JPY"
  THEN Div(AbsDiff(openingAmount, stopLoss), Frac(1, 100))
  ELSE IF baseCurrency = "JPY"
  THEN Div(AbsDiff(openingAmount, stopLoss), Frac(1, 1000000))
  ELSE Div(AbsDiff(openingAmount, stopLoss), Frac(1, 10000))

\* the pip value in quote currency chosen by calculateLotSize
pipValueQuote(baseCurrency, quoteCurrency) ==
  IF baseCurrency = "XAU" \/ quoteCurrency = "XAU" THEN Frac(1, 100)
  ELSE IF quoteCurrency = "JPY" THEN Frac(1, 100)
  ELSE IF baseCurrency = "JPY" THEN Frac(1, 1000000)
  ELSE Frac(1, 10000)

\* every instrument sized as a forex lot
contractSizeForexOnly(baseCurrency, quoteCurrency) == Num(100000)

\* units per lot: 100 ounces for gold, 100,000 units for forex
contractSize(baseCurrency, quoteCurrency) ==
  IF baseCurrency = "XAU" \/ quoteCurrency = "XAU" THEN Num(100) ELSE Num(100000)

\* pips || calculatePips(...): 0 is falsy, as is null (no explicit count)
calculatedPips(pips, baseCurrency, quoteCurrency, openingAmount, stopLoss) ==
  IF pips # null /\ pips[1].n # 0
  THEN pips[1]
  ELSE calculatePips(baseCurrency, quoteCurrency, openingAmount, stopLoss)

\* the rate tables a lookup may return: with and without a rate for USD
RateTables == {[c \in {"USD", "EUR"} |-> IF c = "USD" THEN "0.62" ELSE "0.57"],
               [c \in {"EUR"} |-> "0.57"]}

\* the rate tables returned while the user edits and resets: the service up
\* and answering with all its rates
SessionRateTables == {[c \in {"USD", "EUR"} |-> IF c = "USD" THEN "0.62" ELSE "0.57"]}

\* the numbers the rate strings of these tables stand for, each read once
RateValue ==
  [s \in UNION {{rates[c] : c \in DOMAIN rates} : rates \in RateTables \cup SessionRateTables}
     |-> parseFloat(s)]

\* the rate read without the "|| 1": a missing rate is undefined, NaN as a number
quoteToAccountRateNoDefault(rates, accountCurrency) ==
  IF accountCurrency \in DOMAIN rates
  THEN parseFloat(rates[accountCurrency])
  ELSE NaN

\* quoteData.data.rates[accountCurrency] || 1, then used as a number; the
\* service publishes each rate as a decimal string, "" being the falsy one
quoteToAccountRate(rates, accountCurrency) ==
  IF accountCurrency \in DOMAIN rates /\ rates[accountCurrency] # ""
  THEN RateValue[rates[accountCurrency]]
  ELSE Num(1)

(***************************************************************************)
(* The preference store (localStorage): a map from the keys present.       *)
(***************************************************************************)
EmptyStore == [key \in {} |-> ""]
setItem(store, key, value) ==
  [k \in DOMAIN store \cup {key} |-> IF k = key THEN value ELSE store[k]]
removeItem(store, key) == [k \in DOMAIN store \ {key} |-> store[k]]
\* getItem(key) is truthy: the key is present and its value is not ""
Stored(store, key) == key \in DOMAIN store /\ store[key] # ""

(***************************************************************************)
(* Inputs and bounds.                                                      *)
(***************************************************************************)
\* calculations that may await their rate lookup at the same time
MaxInFlight == 2

\* what the user types while calculations are in flight
BalanceTexts == {"5000 USD", "1000 CAD"}
RiskTexts == {"2", "1"}
SignalTexts == {"Buy NZDCAD 0.81250, SL 0.81050"}

\* the texts of the calculations examined one by one
CalcBalanceTexts == {"5000 USD", "1000", "250.5 eur", "0 USD", "EUR 1000", ""}
CalcRiskTexts == {"2", "0.5", ""}
CalcSignalTexts == {"Buy NZDCAD 0.81250, SL 0.81050",
                    "Buy EURUSD 1.05000, SL 1.04800",
                    "Buy EURUSD 1.05000, SL 1.05000",
                    "XAUUSD Buy Enter 2000.50 SL 1995.50",
                    "Buy EURUSD 1.05000, SL 1.04800 (15 pips)",
                    "Buy EURUSD 1.05000, SL 1.04800 (0 pips)",
                    "Sell USDJPY 150.25 Stop Loss: 150.75",
                    "Short JPYUSD 0.0068 SL 0.0067",
                    "Long JPYXAU Entry: 5 SL 4",
                    "GBPUSD Entry (sell limit): 1.25000 SL 1.25200 (20)",
                    "Buy EURUSD 1.05000",
                    "EURUSD",
                    "Buy 1.05000, SL 1.04800",
                    ""}

\* what the preference store may hold when a session starts
StoredPreferences ==
  {[key \in keys |-> IF key = "accountBalance" THEN "5000 USD" ELSE "2"] :
     keys \in SUBSET {"accountBalance", "riskPercentage"}}


(***************************************************************************)
(* The parses of the texts above, each evaluated once.                     *)
(***************************************************************************)
\* the locals of parseInputText: lines 77-119
parseSignal(text) ==
  LET cm == currencyMatch(text)
      om == openingAmountMatch(text)
      sm == slMatch(text)
      pm == pipsMatch(text)
  IN  [text |-> text,
       currencyMatch |-> cm,
       baseCurrency |-> IF cm = 0 THEN "" ELSE toUpperCase(SubSeq(text, cm, cm + 2)),
       quoteCurrency |-> IF cm = 0 THEN "" ELSE toUpperCase(SubSeq(text, cm + 3, cm + 5)),
       openingAmountMatch |-> om,
       openingAmount |-> IF om = 0 THEN NaN ELSE parseFloat(NumberAt(text, om)),
       slMatch |-> sm,
       stopLoss |-> IF sm = 0 THEN NaN ELSE parseFloat(NumberAt(text, sm)),
       pips |-> IF pm = 0 THEN null ELSE <<parseFloat(DigitsAt(text, pm))>>]

Signal == [text \in SignalTexts \cup CalcSignalTexts \cup {""} |-> parseSignal(text)]
AccountBalance ==
  [input \in BalanceTexts \cup CalcBalanceTexts \cup {""} |-> parseAccountBalance(input)]
RiskPercent ==
  [value \in RiskTexts \cup CalcRiskTexts \cup {""} |-> parseFloat(value)]

(***************************************************************************)
(* The handlers.  alerts holds the alert() calls of the latest step,       *)
(* lastOp names the handler that ran, calc holds the locals of the         *)
(* calculation whose result the slot shows, null when the slot was never   *)
(* written or Reset has emptied it (quoteData being the rate table the     *)
(* calculation received, null when it made no lookup); the three only      *)
(* observe.                                                                *)
(* pending holds the calculations awaiting their lookup, oldest first; two *)
(* marks on each record what happened while it waited: overtaken (one      *)
(* triggered after it has already called setResult) and beforeReset (Reset *)
(* has run since it was triggered).                                        *)
(***************************************************************************)
Remove(seq, i) == SubSeq(seq, 1, i - 1) \o SubSeq(seq, i + 1, Len(seq))

\* the calculation at position i calls setResult: those triggered before it
\* and still waiting have been overtaken
Overtake(seq, i) ==
  [j \in 1..Len(seq) |-> IF j < i THEN [seq[j] EXCEPT !.overtaken = TRUE] ELSE seq[j]]

\* Reset runs while the calculations of seq wait
MarkBeforeReset(seq) == [j \in 1..Len(seq) |-> [seq[j] EXCEPT !.beforeReset = TRUE]]

\* the state a session starts in: useState defaults, then the mount effect
Mount(store) ==
  /\ localStorage' = store
  /\ accountBalanceInput' = IF Stored(store, "accountBalance")
                            THEN store["accountBalance"] ELSE ""
  /\ riskPercentage' = IF Stored(store, "riskPercentage")
                       THEN store["riskPercentage"] ELSE ""
  /\ inputText' = ""
  /\ result' = null
  /\ pending' = <<>>
  /\ calc' = null
  /\ alerts' = <<>>
  /\ lastOp' = "mount"

\* the locals of calculateLotSize once the rate is known: lines 200-222
sizePosition(frame, rate) ==
  LET pipValueAccount == Mul(frame.pipValueQuote, rate)
      size == contractSize(frame.baseCurrency, frame.quoteCurrency)
      lotSize == Div(frame.riskAmount, Mul(Mul(frame.pips, pipValueAccount), size))
  IN  [pipValueAccount |-> pipValueAccount,
       lotSize |-> lotSize,
       positionSizeUnits |-> Mul(lotSize, size),
       standardLots |-> Round(lotSize, 4),
       miniLots |-> Round(Mul(lotSize, Num(10)), 4),
       microLots |-> Round(Mul(lotSize, Num(100)), 4)]

\* a calculation that reads the risk percentage field after its await
setResultReadsRiskField(frame, rate, quoteData) ==
  \E late \in {[frame EXCEPT !.riskAmount = Div(Mul(frame.accountBalance,
                                                     RiskPercent[riskPercentage]),
                                                 Num(100))]} :
    \E position \in {sizePosition(late, rate)} :
      /\ result' = <<[lotSize |-> Round(position.lotSize, 4),
                      amountAtRisk |-> [amount |-> Round(late.riskAmount, 2),
                                        currency |-> late.accountCurrency],
                      positionSizeUnits |-> Round(position.positionSizeUnits, 4),
                      standardLots |-> Round(position.standardLots, 4),
                      miniLots |-> Round(position.miniLots, 4),
                      microLots |-> Round(position.microLots, 4)]>>
      /\ calc' = <<[frame |-> frame, quoteData |-> quoteData,
                    quoteToAccountRate |-> rate,
                    pipValueAccount |-> position.pipValueAccount,
                    lotSize |-> position.lotSize]>>

\* the part of calculateLotSize after the rate is known: lines 200-244
setResult(frame, rate, quoteData) ==
  \E position \in {sizePosition(frame, rate)} :
    /\ result' = <<[lotSize |-> Round(position.lotSize, 4),
                    amountAtRisk |-> [amount |-> Round(frame.riskAmount, 2),
                                      currency |-> frame.accountCurrency],
                    positionSizeUnits |-> Round(position.positionSizeUnits, 4),
                    standardLots |-> Round(position.standardLots, 4),
                    miniLots |-> Round(position.miniLots, 4),
                    microLots |-> Round(position.microLots, 4)]>>
    /\ calc' = <<[frame |-> frame, quoteData |-> quoteData,
                  quoteToAccountRate |-> rate,
                  pipValueAccount |-> position.pipValueAccount,
                  lotSize |-> position.lotSize]>>

\* the locals of calculateLotSize before its await: lines 171-187.  signal
\* carries the locals of parseInputText along for observation.
balanceAndRisk(accountBalanceData, baseCurrency, quoteCurrency, pips, signal) ==
  [baseCurrency |-> baseCurrency, quoteCurrency |-> quoteCurrency,
   pips |-> pips, signal |-> signal,
   accountBalanceInput |-> accountBalanceInput,
   riskPercentage |-> riskPercentage,
   accountBalance |-> accountBalanceData.balance,
   accountCurrency |-> accountBalanceData.currency,
   riskAmount |-> Div(Mul(accountBalanceData.balance, RiskPercent[riskPercentage]),
                      Num(100)),
   pipValueQuote |-> pipValueQuote(baseCurrency, quoteCurrency),
   overtaken |-> FALSE, beforeReset |-> FALSE]

\* calculateLotSize up to its await: lines 161-198
calculateLotSize(baseCurrency, quoteCurrency, pips, signal) ==
  \E accountBalanceData \in {AccountBalance[accountBalanceInput]} :
    IF accountBalanceData = null
    THEN /\ alerts' = <<"Invalid account balance format">>
         /\ UNCHANGED <<result, pending, calc>>
    ELSE \E frame \in {balanceAndRisk(accountBalanceData[1], baseCurrency,
                                      quoteCurrency, pips, signal)} :
           IF quoteCurrency # frame.accountCurrency
           THEN /\ Len(pending) < MaxInFlight
                /\ pending' = Append(pending, frame)
                /\ alerts' = <<>>
                /\ UNCHANGED <<result, calc>>
           ELSE /\ setResult(frame, Num(1), null)
                /\ alerts' = <<>>
                /\ pending' = Overtake(pending, Len(pending) + 1)

\* parseInputText looking for the stop loss before the entry price
parseInputTextStopLossFirst ==
  \E signal \in {Signal[inputText]} :
    /\ lastOp' = "parseInputText"
    /\ UNCHANGED <<accountBalanceInput, inputText, riskPercentage, localStorage>>
    /\ IF signal.currencyMatch = 0
       THEN /\ alerts' = <<"Invalid instrument format">>
            /\ UNCHANGED <<result, pending, calc>>
       ELSE IF signal.slMatch = 0
       THEN /\ alerts' = <<"Invalid stop loss format">>
            /\ UNCHANGED <<result, pending, calc>>
       ELSE IF signal.openingAmountMatch = 0
       THEN /\ alerts' = <<"Invalid opening amount format">>
            /\ UNCHANGED <<result, pending, calc>>
       ELSE \E pips \in {calculatedPips(signal.pips, signal.baseCurrency,
                                        signal.quoteCurrency, signal.openingAmount,
                                        signal.stopLoss)} :
              calculateLotSize(signal.baseCurrency, signal.quoteCurrency, pips, signal)

\* the Calculate button: parseInputText(inputText), lines 75-128
parseInputText ==
  \E signal \in {Signal[inputText]} :
    /\ lastOp' = "parseInputText"
    /\ UNCHANGED <<accountBalanceInput, inputText, riskPercentage, localStorage>>
    /\ IF signal.currencyMatch = 0
       THEN /\ alerts' = <<"Invalid instrument format">>
            /\ UNCHANGED <<result, pending, calc>>
       ELSE IF signal.openingAmountMatch = 0
       THEN /\ alerts' = <<"Invalid opening amount format">>
            /\ UNCHANGED <<result, pending, calc>>
       ELSE IF signal.slMatch = 0
       THEN /\ alerts' = <<"Invalid stop loss format">>
            /\ UNCHANGED <<result, pending, calc>>
       ELSE \E pips \in {calculatedPips(signal.pips, signal.baseCurrency,
                                        signal.quoteCurrency, signal.openingAmount,
                                        signal.stopLoss)} :
              calculateLotSize(signal.baseCurrency, signal.quoteCurrency, pips, signal)

\* a completion that is dropped when a calculation triggered later has
\* already displayed its result
fetchResolvedUnlessOvertaken(i, rates) ==
  /\ i \in 1..Len(pending)
  /\ IF pending[i].overtaken
     THEN UNCHANGED <<result, calc>>
     ELSE \E rate \in {quoteToAccountRate(rates, pending[i].accountCurrency)} :
            setResult(pending[i], rate, <<rates>>)
  /\ pending' = Remove(Overtake(pending, i), i)
  /\ alerts' = <<>>
  /\ lastOp' = "fetchResolved"
  /\ UNCHANGED <<accountBalanceInput, inputText, riskPercentage, localStorage>>

\* the lookup of pending calculation i answers with a rate table: lines 195-244
fetchResolved(i, rates) ==
  /\ i \in 1..Len(pending)
  /\ \E rate \in {quoteToAccountRate(rates, pending[i].accountCurrency)} :
       setResult(pending[i], rate, <<rates>>)
  /\ pending' = Remove(Overtake(pending, i), i)
  /\ alerts' = <<>>
  /\ lastOp' = "fetchResolved"
  /\ UNCHANGED <<accountBalanceInput, inputText, riskPercentage, localStorage>>

\* a catch block that empties the result panel
catchClearsResult(i) ==
  /\ pending' = Remove(pending, i)
  /\ alerts' = <<>>
  /\ result' = null
  /\ UNCHANGED <<accountBalanceInput, inputText, riskPercentage, localStorage, calc>>

\* what the catch block of calculateLotSize does to the state: lines 245-247
catch(i) ==
  /\ pending' = Remove(pending, i)
  /\ alerts' = <<>>
  /\ UNCHANGED <<accountBalanceInput, inputText, riskPercentage, localStorage,
                 result, calc>>

\* fetch() of pending calculation i rejects
fetchRejected(i) ==
  /\ i \in 1..Len(pending)
  /\ catch(i)
  /\ lastOp' = "fetchRejected"

\* the response of pending calculation i is no rate table: json() rejects, or
\* quoteData.data.rates throws a TypeError
responseUnreadable(i) ==
  /\ i \in 1..Len(pending)
  /\ catch(i)
  /\ lastOp' = "responseUnreadable"

\* onChange of the account balance field: line 279
setAccountBalanceInput(value) ==
  /\ value # accountBalanceInput
  /\ accountBalanceInput' = value
  /\ alerts' = <<>>
  /\ lastOp' = "setAccountBalanceInput"
  /\ UNCHANGED <<inputText, riskPercentage, result, localStorage, pending, calc>>

\* a risk percentage field that keeps its value in the component state only
setRiskPercentageStateOnly(value) ==
  /\ value # riskPercentage
  /\ riskPercentage' = value
  /\ alerts' = <<>>
  /\ lastOp' = "setRiskPercentage"
  /\ UNCHANGED <<accountBalanceInput, inputText, result, localStorage, pending, calc>>

\* onChange of the risk percentage field: lines 292-295
setRiskPercentage(value) ==
  /\ value # riskPercentage
  /\ riskPercentage' = value
  /\ localStorage' = setItem(localStorage, "riskPercentage", value)
  /\ alerts' = <<>>
  /\ lastOp' = "setRiskPercentage"
  /\ UNCHANGED <<accountBalanceInput, inputText, result, pending, calc>>

\* onChange of the signal text area: line 308
setInputText(value) ==
  /\ value # inputText
  /\ inputText' = value
  /\ alerts' = <<>>
  /\ lastOp' = "setInputText"
  /\ UNCHANGED <<accountBalanceInput, riskPercentage, result, localStorage, pending, calc>>

\* Reset leaving the stored risk percentage in the preference store
handleResetKeepsRisk ==
  /\ accountBalanceInput' = ""
  /\ inputText' = ""
  /\ riskPercentage' = ""
  /\ result' = null
  /\ localStorage' = removeItem(localStorage, "accountBalance")
  /\ alerts' = <<>>
  /\ lastOp' = "handleReset"
  /\ pending' = MarkBeforeReset(pending)
  /\ calc' = null

\* the Reset button: lines 253-260
handleReset ==
  /\ accountBalanceInput' = ""
  /\ inputText' = ""
  /\ riskPercentage' = ""
  /\ result' = null
  /\ localStorage' = removeItem(removeItem(localStorage, "accountBalance"), "riskPercentage")
  /\ alerts' = <<>>
  /\ lastOp' = "handleReset"
  /\ pending' = MarkBeforeReset(pending)
  /\ calc' = null

\* the page is closed and opened again: in-flight calculations are discarded
\* and the component mounts on what the preference store holds
Reload == Mount(localStorage)

Init ==
  \E store \in StoredPreferences :
    /\ localStorage = store
    /\ accountBalanceInput = (IF Stored(store, "accountBalance")
                              THEN store["accountBalance"] ELSE "")
    /\ riskPercentage = (IF Stored(store, "riskPercentage")
                         THEN store["riskPercentage"] ELSE "")
    /\ inputText = ""
    /\ result = null
    /\ pending = <<>>
    /\ calc = null
    /\ alerts = <<>>
    /\ lastOp = "mount"

Next ==
  \/ \E value \in BalanceTexts : setAccountBalanceInput(value)
  \/ \E value \in RiskTexts : setRiskPercentage(value)
  \/ \E value \in SignalTexts : setInputText(value)
  \/ parseInputText
  \/ \E i \in 1..MaxInFlight, rates \in SessionRateTables : fetchResolved(i, rates)
  \/ \E i \in 1..MaxInFlight : fetchRejected(i)
  \/ \E i \in 1..MaxInFlight : responseUnreadable(i)
  \/ handleReset
  \/ Reload

Spec == Init /\ [][Next]_vars

(***************************************************************************)
(* Calculations one by one: the three fields hold any of the texts above   *)
(* and stay as they are; Calculate runs and its lookup is answered.        *)
(***************************************************************************)
InitCalc ==
  /\ accountBalanceInput \in CalcBalanceTexts
  /\ riskPercentage \in CalcRiskTexts
  /\ inputText \in CalcSignalTexts
  /\ localStorage = setItem(EmptyStore, "riskPercentage", riskPercentage)
  /\ result = null
  /\ pending = <<>>
  /\ calc = null
  /\ alerts = <<>>
  /\ lastOp = "mount"

NextCalc ==
  \/ parseInputText
  \/ \E i \in 1..MaxInFlight, rates \in RateTables : fetchResolved(i, rates)
  \/ \E i \in 1..MaxInFlight : fetchRejected(i)
  \/ \E i \in 1..MaxInFlight : responseUnreadable(i)

SpecCalc == InitCalc /\ [][NextCalc]_vars

(***************************************************************************)
(* Properties.                                                             *)
(***************************************************************************)
\* the calculations that got past their parses: awaiting a lookup, or the last finished
Frames ==
  {pending[i] : i \in 1..Len(pending)} \cup (IF calc = null THEN {} ELSE {calc[1].frame})

\* the signal gives no pip count and its entry price equals its stop loss
ZeroPipDistance(frame) ==
  /\ frame.signal.pips = null
  /\ frame.signal.openingAmount = frame.signal.stopLoss

\* C1: a Calculate whose pip distance is 0 (entry price equal to stop loss, no
\* explicit pip count) ends in the error InvalidStopLossDistance: no lotSize
\* is computed for it and the result slot holds no Infinity or NaN.
C1_ZeroPipDistanceRaisesError ==
  calc # null => ~ZeroPipDistance(calc[1].frame)

\* C2: when the signal text carries a parenthesized pip count, the pip value
\* passed to calculateLotSize is that count, whatever its value (0 included)
\* and whatever the prices; the price-derived distance is used only when no
\* count is matched.
C2_ExplicitPipsAlwaysOverride ==
  \A frame \in Frames :
    IF frame.signal.pips # null
    THEN frame.pips = frame.signal.pips[1]
    ELSE frame.pips = calculatePips(frame.baseCurrency, frame.quoteCurrency,
                                    frame.signal.openingAmount, frame.signal.stopLoss)

\* C3: a calculation whose rate lookup fails (the fetch rejects, or the
\* response is no rate table) does not write the result slot: the result
\* displayed after the failure is the one displayed before it.
C3_FailedLookupKeepsResult ==
  [][lastOp' \in {"fetchRejected", "responseUnreadable"} => result' = result]_vars

\* C3 witness: a lookup has just failed while an earlier result is displayed
C3_Witness ==
  /\ lastOp = "fetchRejected"
  /\ result # null

\* C4: the conversion rate of a calculation is 1, with no lookup issued, when
\* the quote currency equals the account currency; otherwise it is the value
\* rates[accountCurrency] of the table returned, and 1 when the table has no
\* rate for the account currency, the calculation still setting a result.
C4_ConversionRate ==
  /\ \A i \in 1..Len(pending) : pending[i].quoteCurrency # pending[i].accountCurrency
  /\ calc # null =>
       LET frame == calc[1].frame
           quoteData == calc[1].quoteData
       IN  /\ frame.quoteCurrency = frame.accountCurrency =>
                quoteData = null /\ calc[1].quoteToAccountRate = Num(1)
           /\ frame.quoteCurrency # frame.accountCurrency =>
                /\ quoteData # null
                /\ frame.accountCurrency \in DOMAIN quoteData[1] =>
                     calc[1].quoteToAccountRate
                       = DecimalValue(quoteData[1][frame.accountCurrency], 1, 0, 1, FALSE)
                /\ frame.accountCurrency \notin DOMAIN quoteData[1] =>
                     calc[1].quoteToAccountRate = Num(1)
  /\ lastOp = "fetchResolved" => result # null /\ calc # null

\* C4 witness: a lookup returned a table without the account currency and
\* the calculation set a finite result with rate 1
C4_Witness ==
  /\ lastOp = "fetchResolved"
  /\ calc # null
  /\ calc[1].quoteData # null
  /\ calc[1].frame.accountCurrency \notin DOMAIN calc[1].quoteData[1]
  /\ calc[1].quoteToAccountRate = Num(1)
  /\ result # null
  /\ IsFinite(result[1].lotSize)

\* the notification the claim expects of a Calculate on the current fields:
\* the first failing parse in the order instrument, entry price, stop loss,
\* account balance; <<>> when all four succeed
FirstParseFailure ==
  IF Signal[inputText].currencyMatch = 0 THEN <<"Invalid instrument format">>
  ELSE IF Signal[inputText].openingAmountMatch = 0 THEN <<"Invalid opening amount format">>
  ELSE IF Signal[inputText].slMatch = 0 THEN <<"Invalid stop loss format">>
  ELSE IF AccountBalance[accountBalanceInput] = null THEN <<"Invalid account balance format">>
  ELSE <<>>

\* C5: a Calculate whose input fails to parse stops at the first failing step
\* (instrument, entry price, stop loss, account balance): within the Calculate
\* step it raises exactly the one notification of that step, issues no rate
\* lookup and leaves the result as it was; a lookup is issued only when all
\* four parses succeeded.
C5_FirstParseFailureOnly ==
  [][lastOp' = "parseInputText" =>
       /\ alerts' = FirstParseFailure
       /\ FirstParseFailure # <<>> => pending' = pending /\ result' = result
       /\ pending' # pending => FirstParseFailure = <<>>]_vars

\* C5 witness: a Calculate on a text that lacks both the entry price and the
\* stop loss, with a balance that does not parse either, has raised the entry
\* price notification alone
C5_Witness ==
  /\ lastOp = "parseInputText"
  /\ Signal[inputText].currencyMatch # 0
  /\ Signal[inputText].openingAmountMatch = 0
  /\ Signal[inputText].slMatch = 0
  /\ AccountBalance[accountBalanceInput] = null
  /\ alerts = <<"Invalid opening amount format">>

\* C6: after the user enters a value in the account balance field, the
\* preference-store slot "accountBalance" holds that value (so that the next
\* startup loads it back).
C6_BalanceIsSaved ==
  lastOp = "setAccountBalanceInput" =>
    /\ "accountBalance" \in DOMAIN localStorage
    /\ localStorage["accountBalance"] = accountBalanceInput

\* C7: in the state right after Reset the three fields are empty, the result
\* slot is null and both preference-store slots are absent.
C7_ResetClearsEverything ==
  lastOp = "handleReset" =>
    /\ accountBalanceInput = ""
    /\ inputText = ""
    /\ riskPercentage = ""
    /\ result = null
    /\ "accountBalance" \notin DOMAIN localStorage
    /\ "riskPercentage" \notin DOMAIN localStorage

\* C7 witness: Reset has run after a calculation had displayed its result and
\* while another one, triggered before that one, awaits its lookup
C7_Witness ==
  /\ lastOp = "handleReset"
  /\ pending # <<>>
  /\ pending[1].overtaken

\* the pip unit of the claim's rule table, first match first
ClaimPipUnit(baseCurrency, quoteCurrency) ==
  CASE baseCurrency = "XAU" \/ quoteCurrency = "XAU" -> Frac(1, 100)
    [] baseCurrency # "XAU" /\ quoteCurrency = "JPY" -> Frac(1, 100)
    [] baseCurrency = "JPY" /\ quoteCurrency \notin {"XAU", "JPY"} -> Frac(1, 1000000)
    [] OTHER -> Frac(1, 10000)

C9_LotSizeFormula ==
  calc # null =>
    LET frame == calc[1].frame
        size == IF "XAU" \in {frame.baseCurrency, frame.quoteCurrency} THEN 100 ELSE 100000
        divisor == Mul(Mul(frame.pips, calc[1].pipValueAccount), Num(size))
    IN  /\ IsFinite(RiskPercent[frame.riskPercentage]) =>
             Mul(frame.riskAmount, Num(100))
               = Mul(frame.accountBalance, RiskPercent[frame.riskPercentage])
        /\ calc[1].pipValueAccount = Mul(frame.pipValueQuote, calc[1].quoteToAccountRate)
        /\ IF IsFinite(frame.riskAmount) /\ divisor.n # 0
           THEN Mul(calc[1].lotSize, divisor) = frame.riskAmount
           ELSE ~IsFinite(calc[1].lotSize)
        /\ ( /\ frame.accountBalanceInput = "5000 USD"
             /\ frame.riskPercentage = "2"
             /\ frame.pips = Num(20)
             /\ frame.pipValueQuote = Frac(1, 10000)
             /\ calc[1].quoteToAccountRate = Frac(62, 100) )
           => calc[1].lotSize = Frac(100, 124)

\* C9 witness: the end-to-end scenario and a gold calculation have finished
C9_Witness ==
  /\ calc # null
  /\ calc[1].frame.signal.text = "Buy NZDCAD 0.81250, SL 0.81050"
  /\ calc[1].frame.accountBalanceInput = "5000 USD"
  /\ calc[1].frame.riskPercentage = "2"
  /\ calc[1].quoteToAccountRate = Frac(62, 100)
  /\ calc[1].lotSize = Frac(100, 124)

\* |x - y| <= tol on finite numbers
Within(x, y, tol) ==
  LET diff == AbsDiff(x, y)
  IN  diff.n * tol.d <= tol.n * diff.d

\* C10 as stated: for every result produced, |standardLots x 10 - miniLots|
\* <= 1e-4 and |standardLots x 100 - microLots| <= 1e-4 on the tiers as
\* stored after rounding (stated where the tiers are finite numbers).
C10_TiersWithin1e4 ==
  result # null /\ IsFinite(result[1].standardLots) =>
    /\ Within(Mul(result[1].standardLots, Num(10)), result[1].miniLots, Frac(1, 10000))
    /\ Within(Mul(result[1].standardLots, Num(100)), result[1].microLots, Frac(1, 10000))

\* C10 amended: each tier is rounded on its own, so the rounding error of
\* standardLots is multiplied: |standardLots x 10 - miniLots| <= 5.5e-4 and
\* |standardLots x 100 - microLots| <= 5.05e-3 for every finite result; a
\* non-finite lotSize shows the same non-finite value in all three tiers.
C10_TiersWithinScaledRounding ==
  result # null =>
    IF IsFinite(result[1].standardLots)
    THEN /\ IsFinite(result[1].miniLots) /\ IsFinite(result[1].microLots)
         /\ Within(Mul(result[1].standardLots, Num(10)), result[1].miniLots,
                   Frac(55, 100000))
         /\ Within(Mul(result[1].standardLots, Num(100)), result[1].microLots,
                   Frac(505, 100000))
    ELSE /\ result[1].miniLots = result[1].standardLots
         /\ result[1].microLots = result[1].standardLots

\* C10 witness: the end-to-end scenario displays 0.8065 / 8.0645 / 80.6452
C10_Witness ==
  /\ result # null
  /\ result[1].standardLots = Frac(8065, 10000)
  /\ result[1].miniLots = Frac(80645, 10000)
  /\ result[1].microLots = Frac(806452, 10000)

\* the text holds a numeric amount
HasDigit(text) == \E i \in 1..Len(text) : Ch(text, i) \in Digit

\* the currency codes written in the text: its words of exactly three letters
WrittenCodes(text) ==
  {toUpperCase(SubSeq(text, i, i + 2)) :
     i \in {j \in 1..Len(text) : /\ LettersAt(text, j, 3)
                                 /\ Ch(text, j - 1) \notin Alpha
                                 /\ Ch(text, j + 3) \notin Alpha}}

\* the parser as its pattern reads: the first decimal number of the text is
\* the amount, the three letters that follow it (after optional white space),
\* uppercased, are the currency, "USD" when the text holds no code; the parse
\* fails exactly when the text holds no digit
BalanceParserPattern ==
  /\ \A frame \in Frames :
       LET text == frame.accountBalanceInput
           at == Min({i \in 1..Len(text) : Ch(text, i) \in Digit})
           w == SkipClass(text, NumberEnd(text, at), Space)
       IN  /\ HasDigit(text)
           /\ frame.accountBalance = DecimalValue(NumberAt(text, at), 1, 0, 1, FALSE)
           /\ LettersAt(text, w, 3) =>
                frame.accountCurrency = toUpperCase(SubSeq(text, w, w + 2))
           /\ ~LettersAt(text, w, 3) /\ WrittenCodes(text) = {} =>
                frame.accountCurrency = "USD"
  /\ lastOp = "parseInputText" /\ FirstParseFailure \notin {<<"Invalid instrument format">>,
                                                            <<"Invalid opening amount format">>,
                                                            <<"Invalid stop loss format">>} =>
       (alerts = <<"Invalid account balance format">> <=> ~HasDigit(accountBalanceInput))

\* C11: the balance parser takes the first decimal number of the text as the
\* amount and the three letters that follow it (after optional white space),
\* uppercased, as the currency; with no code in the text the currency is
\* "USD"; it fails exactly when the text holds no digit; and a currency code
\* written in the text is never replaced by the default.
C11_BalanceParser ==
  /\ BalanceParserPattern
  /\ \A frame \in Frames :
       WrittenCodes(frame.accountBalanceInput) # {} =>
         frame.accountCurrency \in WrittenCodes(frame.accountBalanceInput)

\* a waiting calculation without the marks of what happened while it waited
Unmarked(frame) == [frame EXCEPT !.overtaken = FALSE, !.beforeReset = FALSE]
Waiting(seq) == [j \in 1..Len(seq) |-> Unmarked(seq[j])]

\* the result slot shows the outcome of the calculation finished
Displays(shown, finished) ==
  /\ shown # null
  /\ finished # null
  /\ shown[1].amountAtRisk = [amount |-> Round(finished[1].frame.riskAmount, 2),
                              currency |-> finished[1].frame.accountCurrency]
  /\ shown[1].lotSize = Round(finished[1].lotSize, 4)
  /\ shown[1].positionSizeUnits
       = Round(Mul(finished[1].lotSize,
                   IF "XAU" \in {finished[1].frame.baseCurrency, finished[1].frame.quoteCurrency}
                   THEN Num(100) ELSE Num(100000)), 4)

\* C12: a Calculate triggered while others await their lookup leaves them
\* waiting and joins them (none is cancelled or blocked); a lookup that
\* answers completes exactly one waiting calculation, whichever its position,
\* and writes that calculation's result into the slot, the others waiting on;
\* the slot is emptied by Reset and by a reload only, so the result displayed
\* is that of the calculation that completed last.
C12_LastCompletionWins ==
  [][/\ lastOp' = "parseInputText" =>
          /\ Len(pending') >= Len(pending)
          /\ SubSeq(Waiting(pending'), 1, Len(pending)) = Waiting(pending)
          /\ ( /\ FirstParseFailure = <<>>
               /\ Signal[inputText].quoteCurrency
                    # AccountBalance[accountBalanceInput][1].currency )
             => /\ Len(pending') = Len(pending) + 1
                /\ result' = result
     /\ lastOp' = "fetchResolved" =>
          \E i \in 1..Len(pending) :
            /\ Waiting(pending') = Waiting(Remove(pending, i))
            /\ calc' # null
            /\ Unmarked(calc'[1].frame) = Unmarked(pending[i])
            /\ Displays(result', calc')
     /\ lastOp' \in {"fetchRejected", "responseUnreadable"} =>
          \E i \in 1..Len(pending) : pending' = Remove(pending, i)
     /\ result' # null /\ (result' # result \/ calc' # calc) => Displays(result', calc')
     /\ result' = null => lastOp' \in {"handleReset", "mount"} \/ result = null]_vars

\* C12 witness: two calculations were in flight, the one triggered second
\* completed first, and now the one triggered first has completed as well:
\* the slot shows its result, computed from a risk percentage that is no
\* longer the one in the field
C12_Witness ==
  /\ lastOp = "fetchResolved"
  /\ pending = <<>>
  /\ calc # null
  /\ calc[1].frame.overtaken
  /\ ~calc[1].frame.beforeReset
  /\ calc[1].frame.riskPercentage = "2"
  /\ riskPercentage = "1"
  /\ Displays(result, calc)
  /\ result[1].amountAtRisk.amount = Num(100)

\* the value of a slot of the preference store, null when the slot is absent
Slot(store, key) == IF key \in DOMAIN store THEN <<store[key]>> ELSE null

C14_NoResultFromBeforeReset ==
  result # null => calc # null /\ ~calc[1].frame.beforeReset

\* the six fields a calculation displays, as a function of the three texts
\* and the rate alone
ResultFrom(balanceText, riskText, signalText, rate) ==
  LET balance == AccountBalance[balanceText][1]
      signal == Signal[signalText]
      gold == "XAU" \in {signal.baseCurrency, signal.quoteCurrency}
      pipUnit == IF gold \/ signal.quoteCurrency = "JPY" THEN Frac(1, 100)
                 ELSE IF signal.baseCurrency = "JPY" THEN Frac(1, 1000000)
                 ELSE Frac(1, 10000)
      pips == IF signal.pips # null /\ signal.pips[1] # Num(0) THEN signal.pips[1]
              ELSE Div(AbsDiff(signal.openingAmount, signal.stopLoss), pipUnit)
      units == IF gold THEN Num(100) ELSE Num(100000)
      riskAmount == Div(Mul(balance.balance, RiskPercent[riskText]), Num(100))
      lotSize == Div(riskAmount, Mul(Mul(pips, Mul(pipUnit, rate)), units))
  IN  [lotSize |-> Round(lotSize, 4),
       amountAtRisk |-> [amount |-> Round(riskAmount, 2), currency |-> balance.currency],
       positionSizeUnits |-> Round(Mul(lotSize, units), 4),
       standardLots |-> Round(lotSize, 4),
       miniLots |-> Round(Mul(lotSize, Num(10)), 4),
       microLots |-> Round(Mul(lotSize, Num(100)), 4)]

\* the rates a calculation may be given: 1, or a rate of a table
Rates == {Num(1)} \cup {RateValue[s] : s \in DOMAIN RateValue}

\* that function on the texts a session can hold when Calculate goes through
\* (the risk field may be empty), each value computed once
SessionResult ==
  [balanceText \in BalanceTexts, riskText \in RiskTexts \cup {""},
   signalText \in SignalTexts, rate \in Rates
     |-> ResultFrom(balanceText, riskText, signalText, rate)]

\* C15: the result a calculation writes is a function only of the balance
\* text, the risk percentage and the signal text as they were when its
\* Calculate was triggered, and of the rate returned to it; what the balance
\* and risk fields hold when the lookup answers does not enter it.
C15_ResultFromInputsAtTrigger ==
  [][/\ lastOp' = "fetchResolved" =>
          \E i \in 1..Len(pending) :
            /\ Waiting(pending') = Waiting(Remove(pending, i))
            /\ \E rate \in Rates :
                 result' = <<SessionResult[pending[i].accountBalanceInput,
                                           pending[i].riskPercentage,
                                           pending[i].signal.text, rate]>>
     /\ lastOp' = "parseInputText" =>
          /\ \A j \in (Len(pending) + 1)..Len(pending') :
               /\ pending'[j].accountBalanceInput = accountBalanceInput
               /\ pending'[j].riskPercentage = riskPercentage
               /\ pending'[j].signal.text = inputText
          /\ result' # result =>
               result' = <<SessionResult[accountBalanceInput, riskPercentage, inputText,
                                         Num(1)]>>]_vars

\* C15 witness: both the balance and the risk percentage were edited while
\* the lookup was in flight (5000 USD at 2 percent when triggered, 1000 CAD at
\* 1 percent in the fields now); the result written is 100 USD at risk and
\* 100/124 lots
C15_Witness ==
  /\ lastOp = "fetchResolved"
  /\ calc # null
  /\ calc[1].frame.accountBalanceInput = "5000 USD"
  /\ calc[1].frame.riskPercentage = "2"
  /\ accountBalanceInput = "1000 CAD"
  /\ riskPercentage = "1"
  /\ result # null
  /\ result[1].amountAtRisk = [amount |-> Num(100), currency |-> "USD"]
  /\ result[1].lotSize = Frac(8065, 10000)

====
